---- MODULE Spec2Model ----
(***************************************************************************)
(* Model of the ABM agent's create-run handler (POST /api/abm) and of the  *)
(* RAG pipeline it drives: request validation, the abm_runs row and its    *)
(* status, the abm_insights vector table, the match_abm_insights query,    *)
(* the fallback artifact and the outbound webhook.                         *)
(*                                                                         *)
(* JSON objects are functions from their keys to their values, so a field  *)
(* that is missing is a key that is not in the DOMAIN.  Text is a string;  *)
(* a template literal is string concatenation.  A domain is kept as the    *)
(* sequence of its tokens (scheme, "www.", labels) so that the prefix      *)
(* stripping of the scraper is computed and not assumed.                   *)
(***************************************************************************)
EXTENDS Naturals, Sequences, FiniteSets, TLC

VARIABLES
    pc,               \* position of each request's handler
    body,             \* what request.json() was asked to parse
    req,              \* the validated request body {company, domain, send_via_n8n}
    runId,            \* const runId = runData.id
    scrapedData,      \* const scrapedData = await scrapeCompany(domain)
    youComCitations,  \* youComData.citations
    relevantChunks,   \* const relevantChunks = await similaritySearch(...)
    allCitations,     \* const allCitations = relevantChunks.flatMap(...)
    uniqueCitations,  \* const uniqueCitations = Array.from(new Map(...).values())
    retrieved,        \* ids of the abm_insights rows the store returned for them
    insights,         \* const insights = await runRAGPipeline(...)
    response,         \* the NextResponse the handler returned
    log,              \* console.error / console.warn lines of each request
    calls,            \* collaborators each request has called so far
    webhookPosts,     \* bodies posted to env.N8N_WEBHOOK_URL by each request
    storeOps,         \* the abm_runs statements each request sent, with their outcome
    abm_runs,         \* table abm_runs: row i has id i
    abm_insights,     \* table abm_insights, in insertion order
    webhookUrl        \* env.N8N_WEBHOOK_URL is set

vars == <<pc, body, req, runId, scrapedData, youComCitations, relevantChunks,
          allCitations, uniqueCitations, retrieved, insights, response, log, calls,
          webhookPosts, storeOps, abm_runs, abm_insights, webhookUrl>>

-----------------------------------------------------------------------------
(* Bounds of the exploration *)

\* The requests of a run of the model: one request, explored with every answer
\* of its collaborators, or two concurrent requests. With two requests in
\* flight the collaborators answer from the Narrow* subsets below, which keeps
\* the product of the two handlers' states explorable.
SingleRequest == {"r1"}
ConcurrentRequests == {"r1", "r2"}
Requests == DOMAIN pc
Concurrent == Cardinality(Requests) > 1

\* Abstract embedding vectors: points whose pairwise cosine similarity is
\* given by CosineSimilarity below.
EmbDim == 3

\* The longest citation list deduplication is explored on.
MaxCitations == 3

-----------------------------------------------------------------------------
(* Program constants *)

match_threshold == 70          \* 0.7, in hundredths
match_count == 5               \* similaritySearch(queryEmbedding, runId, 5)
MaxResearchResults == 8        \* citations.slice(0, 8)

NoRun == 0                     \* runId before the row exists
NoValue == [kind |-> "none"]   \* a local that was not assigned yet

-----------------------------------------------------------------------------
(* Generic helpers *)

RECURSIVE Concat(_)
\* String concatenation of a sequence of tokens.
Concat(toks) == IF toks = <<>> THEN "" ELSE Head(toks) \o Concat(Tail(toks))

\* arr.slice(0, n)
Slice(arr, n) == SubSeq(arr, 1, IF Len(arr) < n THEN Len(arr) ELSE n)

\* obj.key is present and truthy (a non-empty string)
Truthy(obj, key) == key \in DOMAIN obj /\ obj[key] # ""

-----------------------------------------------------------------------------
(* The request body and its validation (route.ts, requestSchema) *)

JStr(toks) == [type |-> "string", toks |-> toks]
JBool(b) == [type |-> "boolean", b |-> b]

AcmeWww == <<"www.", "acme", ".com">>
AcmeHttps == <<"https://", "acme", ".com">>

\* The bodies a client sends: two well-formed ones and one for each way of
\* failing validation, plus a body that is not JSON at all.
NarrowBodies ==
    { [json |-> TRUE, value |-> [company |-> JStr(<<"Acme">>), domain |-> JStr(AcmeWww),
                                 send_via_n8n |-> JBool(TRUE)]] }

WideBodies ==
    { [json |-> TRUE, value |-> [company |-> JStr(<<"Acme">>), domain |-> JStr(AcmeHttps)]],
      [json |-> TRUE, value |-> [company |-> JStr(<<>>), domain |-> JStr(AcmeWww)]],
      [json |-> TRUE, value |-> [company |-> JStr(<<"Acme">>), domain |-> JStr(<<>>)]],
      [json |-> TRUE, value |-> [domain |-> JStr(AcmeWww)]],
      [json |-> TRUE, value |-> [company |-> JStr(<<"Acme">>)]],
      [json |-> TRUE, value |-> [company |-> JStr(<<"Acme">>), domain |-> JStr(AcmeWww),
                                 send_via_n8n |-> JStr(<<"yes">>)]],
      [json |-> FALSE] }

RequestBodies == IF Concurrent THEN NarrowBodies ELSE NarrowBodies \cup WideBodies

\* z.string() without .min(1): the empty string passes.
NonEmptyString_AnyString(obj, key) ==
    /\ key \in DOMAIN obj
    /\ obj[key].type = "string"

\* z.string().min(1)
NonEmptyString(obj, key) ==
    /\ key \in DOMAIN obj
    /\ obj[key].type = "string"
    /\ Concat(obj[key].toks) # ""

\* z.boolean().optional()
OptionalBoolean(obj, key) == key \in DOMAIN obj => obj[key].type = "boolean"

\* requestSchema.parse(body) does not throw a ZodError
requestSchema(obj) ==
    /\ NonEmptyString(obj, "company")
    /\ NonEmptyString(obj, "domain")
    /\ OptionalBoolean(obj, "send_via_n8n")

\* The value requestSchema.parse returns: send_via_n8n defaults to false.
Validated(obj) ==
    [company |-> Concat(obj.company.toks),
     domain |-> obj.domain.toks,
     send_via_n8n |-> IF "send_via_n8n" \in DOMAIN obj THEN obj.send_via_n8n.b ELSE FALSE]

-----------------------------------------------------------------------------
(* The company profile extractor (scraper.ts) *)

\* domain.replace(/^https?:\/\//, '')
StripScheme(toks) ==
    IF toks # <<>> /\ Head(toks) \in {"http://", "https://"} THEN Tail(toks) ELSE toks

\* .replace(/^www\./, '')
StripWww(toks) == IF toks # <<>> /\ Head(toks) = "www." THEN Tail(toks) ELSE toks

CleanDomain(toks) == StripWww(StripScheme(toks))

\* .split('.')[0]: the first label. Every token after the first label starts
\* with its dot; the token "www." ends with it.
FirstLabel(toks) ==
    IF toks = <<>> THEN "" ELSE IF Head(toks) = "www." THEN "www" ELSE Head(toks)

\* a || b || c on strings
Or3(a, b, c) == IF a # "" THEN a ELSE IF b # "" THEN b ELSE c

\* What the fetched page holds, after cheerio's selectors: title is the
\* <title> text as tokens, the first being the part before any '|' or '-';
\* metaDescription is the description or og:description content; aboutText is
\* what the about selectors and the first-paragraph fallback leave.
NarrowPages ==
    { [title |-> <<"Acme", " | Home">>, metaDescription |-> "We make anvils",
       keywords |-> "anvils", aboutText |-> "", h1 |-> "Welcome"] }

WidePages ==
    { [title |-> <<>>, metaDescription |-> "", keywords |-> "", aboutText |-> "",
       h1 |-> "Acme"],
      [title |-> <<"Acme">>, metaDescription |-> "", keywords |-> "",
       aboutText |-> "About Acme", h1 |-> ""] }

NoPage == [fetched |-> FALSE]
FetchResults ==
    IF Concurrent
    THEN {[fetched |-> TRUE, page |-> p] : p \in NarrowPages}
    ELSE {NoPage} \cup {[fetched |-> TRUE, page |-> p] : p \in NarrowPages \cup WidePages}

\* title.split('|')[0].split('-')[0].trim()
TitleHead(title) == IF title = <<>> THEN "" ELSE Head(title)

\* scrapeCompany(domain), given what axios.get produced. It never throws: the
\* catch block returns the minimal record.
scrapeCompany(domain, got) ==
    IF got.fetched
    THEN [name |-> Or3(TitleHead(got.page.title), got.page.h1,
                       FirstLabel(CleanDomain(domain))),
          description |-> Or3(got.page.metaDescription, got.page.aboutText,
                              Concat(got.page.title)),
          domain |-> Concat(CleanDomain(domain)),
          metadata |-> [title |-> Concat(got.page.title),
                        keywords |-> got.page.keywords,
                        about |-> got.page.aboutText]]
    ELSE [name |-> FirstLabel(CleanDomain(domain)),
          description |-> "Company information for " \o Concat(CleanDomain(domain)),
          domain |-> Concat(CleanDomain(domain)),
          metadata |-> [k \in {} |-> ""]]

-----------------------------------------------------------------------------
(* The cited research client (youcom.ts) *)

Citation(text, url, title) == [text |-> text, url |-> url, title |-> title]

CitA == Citation("Acme raises funds", "https://x.com", "News A")
CitB == Citation("Acme ships anvil 2", "https://x.com", "News B")
CitC == Citation("Acme opens office", "https://y.com", "News C")

\* A citation whose URL differs from CitA's in the case of one letter only.
CitUpper == Citation("Acme raises funds", "https://X.com", "News A")

\* The citation lists deduplication is explored on: every list of at most
\* MaxCitations citations, repeated and same-URL entries included.
CitationUniverse == {CitA, CitB, CitC, CitUpper}
CitationLists == UNION {[1..n -> CitationUniverse] : n \in 0..MaxCitations}

\* What a research endpoint answers: a failure, or the citations its JSON
\* normalises to.
ResearchFailure == [ok |-> FALSE]
NarrowResearch == {[ok |-> TRUE, citations |-> <<CitA>>]}
WideResearch ==
    {ResearchFailure} \cup
    {[ok |-> TRUE, citations |-> l] : l \in {<<>>, <<CitA, CitB>>, <<CitC, CitA, CitC, CitB>>}}
ResearchAnswers == IF Concurrent THEN NarrowResearch ELSE NarrowResearch \cup WideResearch

\* fetchCitedResearch(company): never throws, returns no citations on error.
fetchCitedResearch(search) ==
    IF search.ok
    THEN [citations |-> Slice(search.citations, MaxResearchResults)]
    ELSE [citations |-> <<>>]

\* fetchExpressResearch(company): falls back to the search API when the
\* express endpoint fails.
fetchExpressResearch(express, search) ==
    IF express.ok
    THEN [citations |-> Slice(express.citations, MaxResearchResults)]
    ELSE fetchCitedResearch(search)

\* route.ts step 2: express research, then the search API when it found
\* nothing. Neither call throws, so the catch that substitutes an empty list
\* is never entered.
Research(express, search1, search2) ==
    LET first == fetchExpressResearch(express, search1)
    IN  IF Len(first.citations) = 0 THEN fetchCitedResearch(search2) ELSE first

-----------------------------------------------------------------------------
(* The RAG pipeline's pure steps (rag.ts) *)

\* The chunks runRAGPipeline assembles, each with the citation kept at the
\* same position of chunkCitations.
ProfileCitation(scraped) == Citation("", "https://" \o scraped.domain, scraped.name)

DescriptionChunk(scraped) ==
    IF scraped.description # ""
    THEN << [text |-> "Company: " \o scraped.name \o "\nDescription: " \o scraped.description,
             citation |-> ProfileCitation(scraped)] >>
    ELSE << >>

AboutChunk(scraped) ==
    IF Truthy(scraped.metadata, "about")
    THEN << [text |-> "About: " \o scraped.metadata.about,
             citation |-> ProfileCitation(scraped)] >>
    ELSE << >>

CitationChunks(cites) == [i \in 1..Len(cites) |-> [text |-> cites[i].text, citation |-> cites[i]]]

\* The assembly with the external citations pushed before the profile chunks.
TextChunks_CitationsFirst(scraped, cites) ==
    CitationChunks(cites) \o DescriptionChunk(scraped) \o AboutChunk(scraped)

TextChunks(scraped, cites) ==
    DescriptionChunk(scraped) \o AboutChunk(scraped) \o CitationChunks(cites)

\* Abstract embedding vectors and their cosine similarity, in hundredths:
\* equal vectors are at 1.00, neighbours at 0.85, the next at 0.70 (exactly
\* the threshold) and all others at 0.40.
Emb == 0..(EmbDim - 1)

CosineSimilarity(e, q) ==
    LET d == IF e < q THEN q - e ELSE e - q
    IN  CASE d = 0 -> 100
          [] d = 1 -> 85
          [] d = 2 -> 70
          [] OTHER -> 40

\* embedding <=> query_embedding
CosineDistance(e, q) == 100 - CosineSimilarity(e, q)

\* The vectors the embedder returns for n input texts: either the same
\* vector for every text or a different one for neighbouring texts.
EmbeddingResponses(n) ==
    IF Concurrent
    THEN { [i \in 1..n |-> (i - 1) % EmbDim] }
    ELSE { [i \in 1..n |-> 0], [i \in 1..n |-> (i - 1) % EmbDim] }

\* The vector the embedder returns for the query text.
QueryEmbeddings == IF Concurrent THEN {0} ELSE Emb

\* The records with the vectors taken from the end of the response.
InsightRecords_VectorsReversed(run, chunks, embeddings) ==
    [i \in 1..Len(chunks) |->
        [run_id |-> run,
         content_json |-> [text |-> chunks[i].text, chunk_index |-> i - 1],
         embedding |-> embeddings[Len(chunks) + 1 - i],
         citations |-> << chunks[i].citation >>]]

\* The records createAndStoreEmbeddings builds: texts.map((text, idx) => ...).
\* chunk_index is the 0-based position.
InsightRecords(run, chunks, embeddings) ==
    [i \in 1..Len(chunks) |->
        [run_id |-> run,
         content_json |-> [text |-> chunks[i].text, chunk_index |-> i - 1],
         embedding |-> embeddings[i],
         citations |-> << chunks[i].citation >>]]

\* The distances two vectors can be at, and the least of a set of them.
Distances == {CosineDistance(e, q) : e \in Emb, q \in Emb}
Least(ds) == CHOOSE d \in ds : \A x \in ds : d <= x

RECURSIVE SortByDistance(_, _, _)
\* ORDER BY embedding <=> query_embedding: the rows at the least distance
\* first, each group of equal distance in table order.
SortByDistance(rows, q, ds) ==
    IF ds = {} THEN << >>
    ELSE SelectSeq(rows, LAMBDA row : CosineDistance(row.embedding, q) = Least(ds))
         \o SortByDistance(rows, q, ds \ {Least(ds)})

\* The function with >= in its WHERE clause: a match at the threshold passes.
match_abm_insights_AtLeast(table, query_embedding, threshold, count, run) ==
    LET hits == SelectSeq(table, LAMBDA row :
                    /\ (run = NoRun \/ row.run_id = run)
                    /\ CosineSimilarity(row.embedding, query_embedding) >= threshold)
    IN  Slice(SortByDistance(hits, query_embedding, Distances), count)

\* The SQL function match_abm_insights. run = NoRun stands for run_id NULL.
match_abm_insights(table, query_embedding, threshold, count, run) ==
    LET hits == SelectSeq(table, LAMBDA row :
                    /\ (run = NoRun \/ row.run_id = run)
                    /\ CosineSimilarity(row.embedding, query_embedding) > threshold)
    IN  Slice(SortByDistance(hits, query_embedding, Distances), count)

\* The listing without .eq('run_id', runId): the first rows of the whole table.
FallbackListing_Unscoped(table, run, limit) == Slice(table, limit)

\* .from('abm_insights').select('content_json, citations').eq('run_id', runId).limit(limit)
FallbackListing(table, run, limit) ==
    Slice(SelectSeq(table, LAMBDA row : row.run_id = run), limit)

\* (data || []).map(item => ({ text: item.content_json?.text || '', citations: item.citations || [] }))
AsChunks(rows) == [i \in 1..Len(rows) |-> [text |-> rows[i].content_json.text,
                                           citations |-> rows[i].citations]]

\* insert(records) into abm_insights: every row gets its generated id, here
\* its position in the table.
InsertInsights(table, records) ==
    table \o [i \in 1..Len(records) |->
                [id |-> Len(table) + i,
                 run_id |-> records[i].run_id,
                 content_json |-> records[i].content_json,
                 embedding |-> records[i].embedding,
                 citations |-> records[i].citations]]

Ids(rows) == [i \in 1..Len(rows) |-> rows[i].id]

RECURSIVE FlatCitations(_)
\* relevantChunks.flatMap(chunk => chunk.citations)
FlatCitations(chunks) ==
    IF chunks = << >> THEN << >> ELSE Head(chunks).citations \o FlatCitations(Tail(chunks))

\* A map that keeps the value a key was first given.
MapSet_FirstWins(entries, c) ==
    IF \E i \in 1..Len(entries) : entries[i].url = c.url
    THEN entries
    ELSE Append(entries, c)

\* new Map(...).set(c.url, c): an existing key keeps its place and takes the
\* new value, a new key goes last.
MapSet(entries, c) ==
    IF \E i \in 1..Len(entries) : entries[i].url = c.url
    THEN [i \in 1..Len(entries) |-> IF entries[i].url = c.url THEN c ELSE entries[i]]
    ELSE Append(entries, c)

RECURSIVE MapOf(_, _)
MapOf(entries, cs) == IF cs = << >> THEN entries ELSE MapOf(MapSet(entries, Head(cs)), Tail(cs))

\* Array.from(new Map(allCitations.map(c => [c.url, c])).values())
UniqueCitations(cs) == MapOf(<< >>, cs)

Urls(cs) == [i \in 1..Len(cs) |-> cs[i].url]

\* The message content the chat completion may carry.
GenFull == [insights |-> <<"Acme raised funds", "Acme ships anvils", "Acme is hiring">>,
            email_subject |-> "Congrats on the round",
            email_body |-> "Hi Acme team",
            citations |-> <<"https://gen.example">>]
GenNoCitations == [insights |-> <<"Acme raised funds">>,
                   email_subject |-> "Congrats on the round",
                   email_body |-> "Hi Acme team"]
GenEmptyCitations == [insights |-> <<"Acme raised funds">>,
                      email_subject |-> "Congrats on the round",
                      email_body |-> "Hi Acme team",
                      citations |-> << >>]
GenEmptyObject == [k \in {} |-> ""]

NarrowCompletions ==
    { [kind |-> "object", value |-> GenFull],
      [kind |-> "object", value |-> GenNoCitations] }

WideCompletions ==
    { [kind |-> "object", value |-> GenEmptyCitations],
      [kind |-> "object", value |-> GenEmptyObject],
      [kind |-> "null"],          \* the text "null"
      [kind |-> "not_json"],      \* text JSON.parse rejects
      [kind |-> "no_content"] }   \* choices[0]?.message?.content is empty

Completions == IF Concurrent THEN NarrowCompletions ELSE NarrowCompletions \cup WideCompletions

\* const responseText = completion.choices[0]?.message?.content || '{}'
ResponseText(completion) ==
    IF completion.kind = "no_content" THEN [kind |-> "object", value |-> GenEmptyObject]
    ELSE completion

\* JSON.parse(responseText) throws a SyntaxError
ParseThrows(text) == text.kind = "not_json"

\* parsed.citations throws a TypeError: parsed is null
CitationsReadThrows(text) == text.kind = "null"

\* The backfill without its length test: an empty list is left empty.
EnsureCitations_MissingOnly(parsed, unique) ==
    IF "citations" \notin DOMAIN parsed
    THEN [k \in DOMAIN parsed \cup {"citations"} |->
            IF k = "citations" THEN Urls(unique) ELSE parsed[k]]
    ELSE parsed

\* if (!parsed.citations || parsed.citations.length === 0) parsed.citations = ...
EnsureCitations(parsed, unique) ==
    IF "citations" \notin DOMAIN parsed \/ parsed.citations = << >>
    THEN [k \in DOMAIN parsed \cup {"citations"} |->
            IF k = "citations" THEN Urls(unique) ELSE parsed[k]]
    ELSE parsed

\* The fallback object with the citations the success path would backfill:
\* the profile's synthetic citation and the external ones, deduplicated.
FallbackInsights_ChunkDerived(scraped, cites) ==
    [insights |-> << "Company: " \o scraped.name,
                     "Domain: " \o scraped.domain,
                     "Research completed with available data" >>,
     email_subject |-> "Opportunity for " \o scraped.name,
     email_body |-> "Hello " \o scraped.name
                    \o " team,\n\nI wanted to reach out regarding potential collaboration opportunities.\n\nBest regards",
     citations |-> Urls(UniqueCitations(<<ProfileCitation(scraped)>> \o cites))]

\* The fallback object with the profile's name where its domain belongs.
FallbackInsights_NameForDomain(scraped, cites) ==
    [insights |-> << "Company: " \o scraped.name,
                     "Domain: " \o scraped.name,
                     "Research completed with available data" >>,
     email_subject |-> "Opportunity for " \o scraped.name,
     email_body |-> "Hello " \o scraped.name
                    \o " team,\n\nI wanted to reach out regarding potential collaboration opportunities.\n\nBest regards",
     citations |-> Urls(cites)]

\* The object the catch block of runRAGPipeline returns.
FallbackInsights(scraped, cites) ==
    [insights |-> << "Company: " \o scraped.name,
                     "Domain: " \o scraped.domain,
                     "Research completed with available data" >>,
     email_subject |-> "Opportunity for " \o scraped.name,
     email_body |-> "Hello " \o scraped.name
                    \o " team,\n\nI wanted to reach out regarding potential collaboration opportunities.\n\nBest regards",
     citations |-> Urls(cites)]

-----------------------------------------------------------------------------
(* State *)

SqlNull == [null |-> TRUE]

\* How a call to a remote service can end: it succeeds, it reports an error
\* in its result ({ data, error }), or its promise rejects. A call that does
\* not succeed has no effect on the service's state.
Outcomes == {"ok", "error", "throws"}

InitWith(requests) ==
    /\ pc = [r \in requests |-> "receive"]
    /\ body = [r \in requests |-> NoValue]
    /\ req = [r \in requests |-> NoValue]
    /\ runId = [r \in requests |-> NoRun]
    /\ scrapedData = [r \in requests |-> NoValue]
    /\ youComCitations = [r \in requests |-> << >>]
    /\ relevantChunks = [r \in requests |-> << >>]
    /\ allCitations = [r \in requests |-> << >>]
    /\ uniqueCitations = [r \in requests |-> << >>]
    /\ retrieved = [r \in requests |-> << >>]
    /\ insights = [r \in requests |-> NoValue]
    /\ response = [r \in requests |-> NoValue]
    /\ log = [r \in requests |-> << >>]
    /\ calls = [r \in requests |-> {}]
    /\ webhookPosts = [r \in requests |-> << >>]
    /\ storeOps = [r \in requests |-> << >>]
    /\ abm_runs = << >>
    /\ abm_insights = << >>
    /\ webhookUrl \in BOOLEAN

Init == InitWith(SingleRequest)
InitConcurrent == InitWith(ConcurrentRequests)

\* The deduplication of rag.ts lines 159-162 on its own: allCitations is any
\* list of CitationLists, nothing else has happened.
InitDedup ==
    /\ pc = [r \in SingleRequest |-> "dedup"]
    /\ allCitations \in [SingleRequest -> CitationLists]
    /\ uniqueCitations = [r \in SingleRequest |-> << >>]
    /\ body = [r \in SingleRequest |-> NoValue]
    /\ req = [r \in SingleRequest |-> NoValue]
    /\ runId = [r \in SingleRequest |-> NoRun]
    /\ scrapedData = [r \in SingleRequest |-> NoValue]
    /\ youComCitations = [r \in SingleRequest |-> << >>]
    /\ relevantChunks = [r \in SingleRequest |-> << >>]
    /\ retrieved = [r \in SingleRequest |-> << >>]
    /\ insights = [r \in SingleRequest |-> NoValue]
    /\ response = [r \in SingleRequest |-> NoValue]
    /\ log = [r \in SingleRequest |-> << >>]
    /\ calls = [r \in SingleRequest |-> {}]
    /\ webhookPosts = [r \in SingleRequest |-> << >>]
    /\ storeOps = [r \in SingleRequest |-> << >>]
    /\ abm_runs = << >>
    /\ abm_insights = << >>
    /\ webhookUrl = FALSE

\* Request r is one of this run's requests and its handler is at label.
At(r, label) == r \in Requests /\ pc[r] = label

Goto(r, label) == pc' = [pc EXCEPT ![r] = label]
Called(r, who) == calls' = [calls EXCEPT ![r] = @ \cup {who}]
Logged(r, lines) == log' = [log EXCEPT ![r] = @ \o lines]
Respond(r, json) == response' = [response EXCEPT ![r] = json]
Sent(r, op, fields, outcome) ==
    storeOps' = [storeOps EXCEPT ![r] =
                    Append(@, [op |-> op, fields |-> fields, outcome |-> outcome])]

\* The row of a table whose result_json column defaults to '{}'::jsonb, as the
\* citations column of abm_insights does.
InsertedRun_JsonDefault(id, fields) ==
    [id |-> id,
     company |-> fields.company,
     domain |-> fields.domain,
     status |-> IF "status" \in DOMAIN fields THEN fields.status ELSE "processing",
     result_json |-> IF "result_json" \in DOMAIN fields THEN fields.result_json
                     ELSE [k \in {} |-> ""]]

\* The row an insert into abm_runs creates: id is generated, status defaults
\* to 'processing' and result_json to NULL.
InsertedRun(id, fields) ==
    [id |-> id,
     company |-> fields.company,
     domain |-> fields.domain,
     status |-> IF "status" \in DOMAIN fields THEN fields.status ELSE "processing",
     result_json |-> IF "result_json" \in DOMAIN fields THEN fields.result_json ELSE SqlNull]

\* .update(fields) without .eq('id', id): every row is written.
UpdateRun_NoFilter(table, id, fields) ==
    [i \in 1..Len(table) |->
        [k \in DOMAIN table[i] |-> IF k \in DOMAIN fields THEN fields[k] ELSE table[i][k]]]

\* .update(fields).eq('id', id) on abm_runs
UpdateRun(table, id, fields) ==
    [i \in 1..Len(table) |->
        IF table[i].id = id
        THEN [k \in DOMAIN table[i] |-> IF k \in DOMAIN fields THEN fields[k] ELSE table[i][k]]
        ELSE table[i]]

-----------------------------------------------------------------------------
(* POST /api/abm, up to the pipeline (route.ts) *)

\* The outermost catch of POST.
OuterCatch(r, zodError) ==
    /\ IF zodError
       THEN /\ Respond(r, [status |-> 400, error |-> "Invalid request"])
            /\ UNCHANGED log
       ELSE /\ Respond(r, [status |-> 500, error |-> "Internal server error"])
            /\ Logged(r, <<"API error:">>)
    /\ Goto(r, "done")

\* request.json() and requestSchema.parse(body)
Post_Validate(r) ==
    /\ At(r, "receive")
    /\ \E raw \in RequestBodies :
         /\ body' = [body EXCEPT ![r] = raw]
         /\ IF ~raw.json THEN
               /\ OuterCatch(r, FALSE)
               /\ UNCHANGED req
            ELSE IF ~requestSchema(raw.value) THEN
               /\ OuterCatch(r, TRUE)
               /\ UNCHANGED req
            ELSE
               /\ req' = [req EXCEPT ![r] = Validated(raw.value)]
               /\ Goto(r, "create_run")
               /\ UNCHANGED <<response, log>>
    /\ UNCHANGED <<allCitations, uniqueCitations>>
    /\ UNCHANGED <<runId, scrapedData, youComCitations, relevantChunks, retrieved,
                   insights, calls, webhookPosts, storeOps, abm_runs, abm_insights,
                   webhookUrl>>

\* supabase.from('abm_runs').insert({company, domain, status: 'processing'}).select().single()
Post_CreateRun(r) ==
    /\ At(r, "create_run")
    /\ Called(r, "run_store")
    /\ \E outcome \in Outcomes :
         LET row == [company |-> req[r].company,
                     domain |-> Concat(req[r].domain),
                     status |-> "processing"]
         IN  /\ Sent(r, "insert", row, outcome)
             /\ CASE outcome = "ok" ->
                       /\ abm_runs' = Append(abm_runs, InsertedRun(Len(abm_runs) + 1, row))
                       /\ runId' = [runId EXCEPT ![r] = Len(abm_runs) + 1]
                       /\ Goto(r, "scrape")
                       /\ UNCHANGED <<response, log>>
                  [] outcome = "error" ->
                       /\ Respond(r, [status |-> 500,
                                      error |-> "Failed to create run record"])
                       /\ Goto(r, "done")
                       /\ UNCHANGED <<abm_runs, runId, log>>
                  [] outcome = "throws" ->
                       /\ OuterCatch(r, FALSE)
                       /\ UNCHANGED <<abm_runs, runId>>
    /\ UNCHANGED <<allCitations, uniqueCitations>>
    /\ UNCHANGED <<body, req, scrapedData, youComCitations, relevantChunks, retrieved,
                   insights, webhookPosts, abm_insights, webhookUrl>>

\* Step 1: const scrapedData = await scrapeCompany(domain)
Post_Scrape(r) ==
    /\ At(r, "scrape")
    /\ Called(r, "scraper")
    /\ \E got \in FetchResults :
         scrapedData' = [scrapedData EXCEPT ![r] = scrapeCompany(req[r].domain, got)]
    /\ Goto(r, "research")
    /\ UNCHANGED <<allCitations, uniqueCitations>>
    /\ UNCHANGED <<body, req, runId, youComCitations, relevantChunks, retrieved, insights,
                   response, log, webhookPosts, storeOps, abm_runs, abm_insights,
                   webhookUrl>>

\* Step 2: youComData = await fetchExpressResearch(company), then the search
\* API when there are no citations
Post_Research(r) ==
    /\ At(r, "research")
    /\ Called(r, "research")
    /\ \E express \in ResearchAnswers, search1 \in ResearchAnswers, search2 \in ResearchAnswers :
         youComCitations' =
            [youComCitations EXCEPT ![r] = Research(express, search1, search2).citations]
    /\ Goto(r, "rag_chunks")
    /\ UNCHANGED <<allCitations, uniqueCitations>>
    /\ UNCHANGED <<body, req, runId, scrapedData, relevantChunks, retrieved, insights,
                   response, log, webhookPosts, storeOps, abm_runs, abm_insights,
                   webhookUrl>>

-----------------------------------------------------------------------------
(* runRAGPipeline and its helpers, as steps of the request (rag.ts) *)

\* RagCatch without its return: the error is logged and thrown on to POST.
RagCatch_Rethrows(r, before, error) ==
    /\ Logged(r, before \o <<"Error in RAG pipeline: " \o error>>)
    /\ Goto(r, "catch")
    /\ UNCHANGED insights

\* The catch block of runRAGPipeline: whatever was thrown inside the try is
\* logged and the fallback object is returned to POST.
RagCatch(r, before, error) ==
    /\ insights' = [insights EXCEPT ![r] =
                       FallbackInsights(scrapedData[r], youComCitations[r])]
    /\ Logged(r, before \o <<"Error in RAG pipeline: " \o error>>)
    /\ Goto(r, "update")

\* Chunk assembly and the check that there is something to embed.
Rag_BuildChunks(r) ==
    /\ At(r, "rag_chunks")
    /\ IF Len(TextChunks(scrapedData[r], youComCitations[r])) = 0
       THEN RagCatch(r, << >>, "No text chunks to process")
       ELSE /\ Goto(r, "rag_embed")
            /\ UNCHANGED <<insights, log>>
    /\ UNCHANGED <<allCitations, uniqueCitations>>
    /\ UNCHANGED <<body, req, runId, scrapedData, youComCitations, relevantChunks,
                   retrieved, response, calls, webhookPosts, storeOps, abm_runs,
                   abm_insights, webhookUrl>>

\* createAndStoreEmbeddings(runId, textChunks, chunkCitations): one batched
\* embeddings call, then one insert of all the records.
Rag_CreateAndStoreEmbeddings(r) ==
    /\ At(r, "rag_embed")
    /\ LET chunks == TextChunks(scrapedData[r], youComCitations[r])
       IN  \/ /\ Called(r, "embedder")
              /\ RagCatch(r, <<"Error creating embeddings:">>, "embeddings.create failed")
              /\ UNCHANGED abm_insights
           \/ /\ calls' = [calls EXCEPT ![r] = @ \cup {"embedder", "vector_store"}]
              /\ \E embeddings \in EmbeddingResponses(Len(chunks)), outcome \in Outcomes :
                   CASE outcome = "ok" ->
                          /\ abm_insights' =
                                InsertInsights(abm_insights,
                                    InsightRecords(runId[r], chunks, embeddings))
                          /\ Goto(r, "rag_query")
                          /\ UNCHANGED <<insights, log>>
                     [] outcome = "error" ->
                          /\ RagCatch(r, <<"Error storing embeddings:",
                                           "Error creating embeddings:">>,
                                      "abm_insights insert failed")
                          /\ UNCHANGED abm_insights
                     [] outcome = "throws" ->
                          /\ RagCatch(r, <<"Error creating embeddings:">>,
                                      "abm_insights insert failed")
                          /\ UNCHANGED abm_insights
    /\ UNCHANGED <<allCitations, uniqueCitations>>
    /\ UNCHANGED <<body, req, runId, scrapedData, youComCitations, relevantChunks,
                   retrieved, response, webhookPosts, storeOps, abm_runs, webhookUrl>>

\* The rpc without its run_id argument: the function's default, NULL, applies.
SimilarityRpc_Unscoped(table, queryEmbedding, run, limit) ==
    match_abm_insights(table, queryEmbedding, match_threshold, limit, NoRun)

\* supabase.rpc('match_abm_insights', {query_embedding, match_threshold: 0.7,
\*                                     match_count: limit, run_id: runId})
SimilarityRpc(table, queryEmbedding, run, limit) ==
    match_abm_insights(table, queryEmbedding, match_threshold, limit, run)

\* similaritySearch returns rows, mapped to {text, citations}.
Returned(r, rows) ==
    /\ relevantChunks' = [relevantChunks EXCEPT ![r] = AsChunks(rows)]
    /\ retrieved' = [retrieved EXCEPT ![r] = Ids(rows)]

\* similaritySearch testing the answer instead of the error: an rpc that
\* returns no rows leads to the fallback query.
Rag_SimilaritySearch_FallbackOnEmpty(r) ==
    /\ At(r, "rag_query")
    /\ \/ /\ Called(r, "embedder")
          /\ RagCatch(r, << >>, "embeddings.create failed")
          /\ UNCHANGED <<relevantChunks, retrieved>>
       \/ /\ calls' = [calls EXCEPT ![r] = @ \cup {"embedder", "vector_store"}]
          /\ \E queryEmbedding \in QueryEmbeddings, outcome \in Outcomes :
               LET rows == SimilarityRpc(abm_insights, queryEmbedding, runId[r], match_count)
               IN  CASE outcome = "ok" /\ rows # << >> ->
                          /\ Returned(r, rows)
                          /\ Goto(r, "rag_generate")
                          /\ UNCHANGED log
                     [] outcome = "ok" /\ rows = << >> ->
                          /\ Goto(r, "rag_fallback")
                          /\ UNCHANGED <<relevantChunks, retrieved, log>>
                     [] outcome = "error" ->
                          /\ Logged(r, <<"RPC function not found, using fallback query">>)
                          /\ Goto(r, "rag_fallback")
                          /\ UNCHANGED <<relevantChunks, retrieved>>
                     [] outcome = "throws" ->
                          /\ Logged(r, <<"Error in similarity search:">>)
                          /\ Returned(r, << >>)
                          /\ Goto(r, "rag_generate")
          /\ UNCHANGED insights
    /\ UNCHANGED <<allCitations, uniqueCitations>>
    /\ UNCHANGED <<body, req, runId, scrapedData, youComCitations, response,
                   webhookPosts, storeOps, abm_runs, abm_insights, webhookUrl>>

\* The embedding of the fixed query text, then the rpc of similaritySearch.
Rag_SimilaritySearch(r) ==
    /\ At(r, "rag_query")
    /\ \/ /\ Called(r, "embedder")
          /\ RagCatch(r, << >>, "embeddings.create failed")
          /\ UNCHANGED <<relevantChunks, retrieved>>
       \/ /\ calls' = [calls EXCEPT ![r] = @ \cup {"embedder", "vector_store"}]
          /\ \E queryEmbedding \in QueryEmbeddings, outcome \in Outcomes :
               CASE outcome = "ok" ->
                      /\ Returned(r, SimilarityRpc(abm_insights, queryEmbedding,
                                                   runId[r], match_count))
                      /\ Goto(r, "rag_generate")
                      /\ UNCHANGED log
                 [] outcome = "error" ->
                      /\ Logged(r, <<"RPC function not found, using fallback query">>)
                      /\ Goto(r, "rag_fallback")
                      /\ UNCHANGED <<relevantChunks, retrieved>>
                 [] outcome = "throws" ->
                      /\ Logged(r, <<"Error in similarity search:">>)
                      /\ Returned(r, << >>)
                      /\ Goto(r, "rag_generate")
          /\ UNCHANGED insights
    /\ UNCHANGED <<allCitations, uniqueCitations>>
    /\ UNCHANGED <<body, req, runId, scrapedData, youComCitations, response,
                   webhookPosts, storeOps, abm_runs, abm_insights, webhookUrl>>

\* The fallback query without the catch of similaritySearch around it: its
\* failure reaches the catch of runRAGPipeline.
Rag_FallbackQuery_Propagates(r) ==
    /\ At(r, "rag_fallback")
    /\ \E outcome \in Outcomes :
         IF outcome = "ok"
         THEN /\ Returned(r, FallbackListing(abm_insights, runId[r], match_count))
              /\ Goto(r, "rag_generate")
              /\ UNCHANGED <<log, insights>>
         ELSE /\ RagCatch(r, <<"Error in similarity search:">>, "fallback query failed")
              /\ UNCHANGED <<relevantChunks, retrieved>>
    /\ UNCHANGED <<allCitations, uniqueCitations>>
    /\ UNCHANGED <<body, req, runId, scrapedData, youComCitations, response,
                   calls, webhookPosts, storeOps, abm_runs, abm_insights, webhookUrl>>

\* The direct query similaritySearch falls back to when the rpc reported an
\* error; when it fails too the catch returns no chunks.
Rag_FallbackQuery(r) ==
    /\ At(r, "rag_fallback")
    /\ \E outcome \in Outcomes :
         IF outcome = "ok"
         THEN /\ Returned(r, FallbackListing(abm_insights, runId[r], match_count))
              /\ UNCHANGED log
         ELSE /\ Returned(r, << >>)
              /\ Logged(r, <<"Error in similarity search:">>)
    /\ Goto(r, "rag_generate")
    /\ UNCHANGED <<allCitations, uniqueCitations>>
    /\ UNCHANGED <<body, req, runId, scrapedData, youComCitations, insights, response,
                   calls, webhookPosts, storeOps, abm_runs, abm_insights, webhookUrl>>

\* The chat completion, JSON.parse and the citations backfill.
Rag_Generate(r) ==
    /\ At(r, "rag_generate")
    /\ Called(r, "generation")
    /\ \/ RagCatch(r, << >>, "chat.completions.create failed")
       \/ \E completion \in Completions :
            LET text == ResponseText(completion)
            IN  IF ParseThrows(text) THEN RagCatch(r, << >>, "SyntaxError")
                ELSE IF CitationsReadThrows(text) THEN RagCatch(r, << >>, "TypeError")
                ELSE /\ insights' = [insights EXCEPT ![r] =
                            EnsureCitations(text.value,
                                UniqueCitations(FlatCitations(relevantChunks[r])))]
                     /\ Goto(r, "update")
                     /\ UNCHANGED log
    /\ allCitations' = [allCitations EXCEPT ![r] = FlatCitations(relevantChunks[r])]
    /\ uniqueCitations' = [uniqueCitations EXCEPT ![r] =
                              UniqueCitations(FlatCitations(relevantChunks[r]))]
    /\ UNCHANGED <<body, req, runId, scrapedData, youComCitations, relevantChunks,
                   retrieved, response, webhookPosts, storeOps, abm_runs, abm_insights,
                   webhookUrl>>

\* Array.from(new Map(allCitations.map(c => [c.url, c])).values()) applied to
\* allCitations.
Dedup(r) ==
    /\ At(r, "dedup")
    /\ uniqueCitations' = [uniqueCitations EXCEPT ![r] = UniqueCitations(allCitations[r])]
    /\ Goto(r, "dedup_again")
    /\ UNCHANGED <<allCitations, body, req, runId, scrapedData, youComCitations,
                   relevantChunks, retrieved, insights, response, log, calls,
                   webhookPosts, storeOps, abm_runs, abm_insights, webhookUrl>>

\* The same expression applied to its own result.
DedupAgain(r) ==
    /\ At(r, "dedup_again")
    /\ allCitations' = [allCitations EXCEPT ![r] = uniqueCitations[r]]
    /\ uniqueCitations' = [uniqueCitations EXCEPT ![r] = UniqueCitations(uniqueCitations[r])]
    /\ Goto(r, "deduped")
    /\ UNCHANGED <<body, req, runId, scrapedData, youComCitations, relevantChunks,
                   retrieved, insights, response, log, calls, webhookPosts, storeOps,
                   abm_runs, abm_insights, webhookUrl>>

-----------------------------------------------------------------------------
(* POST /api/abm, after the pipeline (route.ts) *)

FullResult(r) ==
    [insights |-> insights[r],
     scraped_data |-> scrapedData[r],
     you_com_citations |-> Len(youComCitations[r])]

\* The test without env.N8N_WEBHOOK_URL: the flag alone decides.
Notifies_FlagOnly(r) == req[r].send_via_n8n

\* if (send_via_n8n && env.N8N_WEBHOOK_URL)
Notifies(r) == req[r].send_via_n8n /\ webhookUrl

\* Step 4: update({status: 'completed', result_json: fullResult}).eq('id', runId).
\* The result of the call is not looked at; a rejection goes to the catch.
Post_UpdateCompleted(r) ==
    /\ At(r, "update")
    /\ \E outcome \in Outcomes :
         LET fields == [status |-> "completed", result_json |-> FullResult(r)]
         IN  /\ Sent(r, "update", fields, outcome)
             /\ CASE outcome = "ok" ->
                       /\ abm_runs' = UpdateRun(abm_runs, runId[r], fields)
                       /\ Goto(r, IF Notifies(r) THEN "notify" ELSE "respond")
                  [] outcome = "error" ->
                       /\ UNCHANGED abm_runs
                       /\ Goto(r, IF Notifies(r) THEN "notify" ELSE "respond")
                  [] outcome = "throws" ->
                       /\ UNCHANGED abm_runs
                       /\ Goto(r, "catch")
    /\ UNCHANGED <<allCitations, uniqueCitations>>
    /\ UNCHANGED <<body, req, runId, scrapedData, youComCitations, relevantChunks,
                   retrieved, insights, response, log, calls, webhookPosts, abm_insights,
                   webhookUrl>>

\* JSON.stringify({...}) of the webhook body: a property whose value is
\* undefined is left out.
WebhookBody(r) ==
    LET sent == [company |-> req[r].company,
                 domain |-> Concat(req[r].domain),
                 run_id |-> runId[r]]
        keys == DOMAIN sent \cup
                (DOMAIN insights[r]
                    \cap {"email_subject", "email_body", "insights", "citations"})
    IN  [k \in keys |-> IF k \in DOMAIN sent THEN sent[k] ELSE insights[r][k]]

\* The webhook call without its try/catch: a failure goes to POST's catch.
Post_Notify_Uncaught(r) ==
    /\ At(r, "notify")
    /\ Called(r, "notifier")
    /\ webhookPosts' = [webhookPosts EXCEPT ![r] = Append(@, WebhookBody(r))]
    /\ \/ /\ UNCHANGED log
          /\ Goto(r, "respond")
       \/ /\ Logged(r, <<"n8n webhook error:">>)
          /\ Goto(r, "catch")
    /\ UNCHANGED <<allCitations, uniqueCitations>>
    /\ UNCHANGED <<body, req, runId, scrapedData, youComCitations, relevantChunks,
                   retrieved, insights, response, storeOps, abm_runs, abm_insights,
                   webhookUrl>>

\* Step 5: the webhook call, inside its own try/catch.
Post_Notify(r) ==
    /\ At(r, "notify")
    /\ Called(r, "notifier")
    /\ webhookPosts' = [webhookPosts EXCEPT ![r] = Append(@, WebhookBody(r))]
    /\ \/ UNCHANGED log
       \/ Logged(r, <<"n8n webhook error:">>)
    /\ Goto(r, "respond")
    /\ UNCHANGED <<allCitations, uniqueCitations>>
    /\ UNCHANGED <<body, req, runId, scrapedData, youComCitations, relevantChunks,
                   retrieved, insights, response, storeOps, abm_runs, abm_insights,
                   webhookUrl>>

\* return NextResponse.json({success: true, ...})
Post_Respond(r) ==
    /\ At(r, "respond")
    /\ Respond(r, [status |-> 200,
                   success |-> TRUE,
                   run_id |-> runId[r],
                   company |-> req[r].company,
                   domain |-> Concat(req[r].domain),
                   insights |-> insights[r],
                   scraped_data |-> scrapedData[r],
                   you_com_citations |-> Len(youComCitations[r])])
    /\ Goto(r, "done")
    /\ UNCHANGED <<allCitations, uniqueCitations>>
    /\ UNCHANGED <<body, req, runId, scrapedData, youComCitations, relevantChunks,
                   retrieved, insights, log, calls, webhookPosts, storeOps, abm_runs,
                   abm_insights, webhookUrl>>

\* The catch of the inner try: update({status: 'failed'}).eq('id', runId), whose
\* result is not looked at either, then the error response. A rejection of
\* this update goes to the outermost catch.
Post_Catch(r) ==
    /\ At(r, "catch")
    /\ \E outcome \in Outcomes :
         LET fields == [status |-> "failed"]
             failure == [status |-> 500, error |-> "Failed to process ABM request",
                         run_id |-> runId[r]]
         IN  /\ Sent(r, "update", fields, outcome)
             /\ CASE outcome = "ok" ->
                       /\ abm_runs' = UpdateRun(abm_runs, runId[r], fields)
                       /\ Respond(r, failure)
                       /\ Logged(r, <<"ABM processing error:">>)
                       /\ Goto(r, "done")
                  [] outcome = "error" ->
                       /\ UNCHANGED abm_runs
                       /\ Respond(r, failure)
                       /\ Logged(r, <<"ABM processing error:">>)
                       /\ Goto(r, "done")
                  [] outcome = "throws" ->
                       /\ UNCHANGED abm_runs
                       /\ OuterCatch(r, FALSE)
    /\ UNCHANGED <<allCitations, uniqueCitations>>
    /\ UNCHANGED <<body, req, runId, scrapedData, youComCitations, relevantChunks,
                   retrieved, insights, calls, webhookPosts, abm_insights, webhookUrl>>

-----------------------------------------------------------------------------
(* Specification *)

Next ==
    \E r \in ConcurrentRequests :
        \/ Post_Validate(r)
        \/ Post_CreateRun(r)
        \/ Post_Scrape(r)
        \/ Post_Research(r)
        \/ Rag_BuildChunks(r)
        \/ Rag_CreateAndStoreEmbeddings(r)
        \/ Rag_SimilaritySearch(r)
        \/ Rag_FallbackQuery(r)
        \/ Rag_Generate(r)
        \/ Post_UpdateCompleted(r)
        \/ Post_Notify(r)
        \/ Post_Respond(r)
        \/ Post_Catch(r)

Spec == Init /\ [][Next]_vars
SpecConcurrent == InitConcurrent /\ [][Next]_vars

NextDedup == \E r \in SingleRequest : Dedup(r) \/ DedupAgain(r)
SpecDedup == InitDedup /\ [][NextDedup]_vars

-----------------------------------------------------------------------------
(* Vocabulary of the properties *)

InsightsFields == {"insights", "email_subject", "email_body", "citations"}

Done(r) == pc[r] = "done"
Accepted(r) == req[r] # NoValue
RunCreated(r) == runId[r] # NoRun
Run(r) == abm_runs[runId[r]]

PipelineLabels == {"rag_chunks", "rag_embed", "rag_query", "rag_fallback", "rag_generate"}

PipelineErrors ==
    {"No text chunks to process", "embeddings.create failed", "abm_insights insert failed",
     "chat.completions.create failed", "SyntaxError", "TypeError"}

\* The request's log holds the line.
HasLogged(r, line) == \E i \in 1..Len(log[r]) : log[r][i] = line

\* runRAGPipeline caught the error.
PipelineFailedWith(r, error) == HasLogged(r, "Error in RAG pipeline: " \o error)
PipelineFailed(r) == \E error \in PipelineErrors : PipelineFailedWith(r, error)

\* The outcome the Run Store gave the request's n-th statement.
StoreOutcome(r, n) == storeOps[r][n].outcome

-----------------------------------------------------------------------------
(* C1 *)

\* C1: every create-run request with non-empty company and domain is answered
\* with an insights object holding all four fields insights, email_subject,
\* email_body and citations, whatever the profile fetch, the research service,
\* the embedder, the vector store and the generation call do (a generation
\* reply that is valid JSON but lacks fields included). The answers to a
\* failing Run Store (status 500) are left aside: the claim does not list it.
C1_ResponseHasAllFourFields ==
    \A r \in Requests :
        (Done(r) /\ Accepted(r) /\ response[r].status # 500)
            => /\ "insights" \in DOMAIN response[r]
               /\ InsightsFields \subseteq DOMAIN response[r].insights

-----------------------------------------------------------------------------
(* C2 *)

\* C2: runRAGPipeline never propagates an exception: from any step of the
\* pipeline the request either stays in the pipeline or returns to POST with
\* an Insights value assigned (POST goes on to its status update); it never
\* lands in POST's catch.
C2_PipelineNeverThrows ==
    [][\A r \in Requests :
          pc[r] \in PipelineLabels =>
              \/ pc'[r] \in PipelineLabels
              \/ /\ pc'[r] = "update"
                 /\ insights'[r] # NoValue
                 /\ "citations" \in DOMAIN insights'[r]]_vars

\* Each kind of failure has been caught and the request is back in POST.
C2_Witness ==
    \E r \in Requests :
        /\ pc[r] = "update"
        /\ PipelineFailedWith(r, "SyntaxError")
        /\ youComCitations[r] = <<CitA, CitB>>
        /\ insights[r] = FallbackInsights(scrapedData[r], youComCitations[r])

-----------------------------------------------------------------------------
(* C3 *)

\* C3: a run's status changes only from processing to completed or from
\* processing to failed; a row that is completed or failed is never written
\* again, and no row disappears, so no later read shows processing.
C3_StatusOnlyLeavesProcessing ==
    [][/\ Len(abm_runs') >= Len(abm_runs)
       /\ \A i \in 1..Len(abm_runs) :
            /\ abm_runs'[i].status # abm_runs[i].status
                  => /\ abm_runs[i].status = "processing"
                     /\ abm_runs'[i].status \in {"completed", "failed"}
            /\ abm_runs[i].status # "processing" => abm_runs'[i] = abm_runs[i]]_vars

\* Two requests have finished, one run completed and the other failed.
C3_Witness ==
    /\ \A r \in Requests : Done(r) /\ RunCreated(r)
    /\ {abm_runs[i].status : i \in 1..Len(abm_runs)} = {"completed", "failed"}

-----------------------------------------------------------------------------
(* C4 *)

\* C4: in every state of the Run Store a run's result_json is non-null exactly
\* when its status is completed.
C4_PayloadIffCompleted ==
    \A i \in 1..Len(abm_runs) :
        (abm_runs[i].result_json # SqlNull) <=> (abm_runs[i].status = "completed")

\* A completed run with its payload beside a failed run with none.
C4_Witness ==
    \E i, j \in 1..Len(abm_runs) :
        /\ abm_runs[i].status = "completed"
        /\ abm_runs[i].result_json # SqlNull
        /\ abm_runs[j].status = "failed"
        /\ abm_runs[j].result_json = SqlNull

-----------------------------------------------------------------------------
(* C5 *)

\* C5: the request that created a run writes completed or failed to it before
\* it returns: no run whose request has returned a response is still
\* processing, also when the status update reported an error.
C5_FinishedRunNotProcessing ==
    \A r \in Requests : (Done(r) /\ RunCreated(r)) => Run(r).status # "processing"

-----------------------------------------------------------------------------
(* C6 *)

AcmeFallback ==
    [insights |-> <<"Company: Acme", "Domain: acme.com",
                    "Research completed with available data">>,
     email_subject |-> "Opportunity for Acme",
     email_body |-> "Hello Acme team,\n\nI wanted to reach out regarding potential collaboration opportunities.\n\nBest regards",
     citations |-> << >>]

\* The profile {name Acme, description empty, no about} with no citations.
AcmeExample(r) ==
    /\ scrapedData[r] # NoValue
    /\ scrapedData[r].name = "Acme"
    /\ scrapedData[r].domain = "acme.com"
    /\ scrapedData[r].description = ""
    /\ ~Truthy(scrapedData[r].metadata, "about")
    /\ youComCitations[r] = << >>

\* C6: after a hard failure of the pipeline (no chunks, embedding, persistence,
\* generation or parse) the statement POST sends to the Run Store is the update
\* to completed with the fallback Insights as payload, and once the store has
\* applied it the run is completed with that payload; for the Acme example the
\* payload is the literal fallback object with citations [].
C6_HardFailureStillCompletes ==
    \A r \in Requests :
        (PipelineFailed(r) /\ Len(storeOps[r]) >= 2) =>
            LET sent == storeOps[r][2]
            IN  /\ sent.op = "update"
                /\ sent.fields.status = "completed"
                /\ sent.fields.result_json.insights =
                      FallbackInsights(scrapedData[r], youComCitations[r])
                /\ AcmeExample(r) => sent.fields.result_json.insights = AcmeFallback
                /\ sent.outcome = "ok" =>
                      /\ Run(r).status = "completed"
                      /\ Run(r).result_json = sent.fields.result_json
                      /\ pc[r] # "catch"

\* The Acme example has run to its end: no chunks, run completed, fallback stored.
C6_Witness ==
    \E r \in Requests :
        /\ Done(r)
        /\ AcmeExample(r)
        /\ PipelineFailedWith(r, "No text chunks to process")
        /\ Run(r).status = "completed"
        /\ Run(r).result_json.insights = AcmeFallback
        /\ response[r].status = 200

-----------------------------------------------------------------------------
(* C7 *)

\* What the claim calls failing validation: company or domain missing or
\* empty, or a notify flag that is not a boolean.
FailsValidation(b) ==
    /\ b.json
    /\ \/ "company" \notin DOMAIN b.value
       \/ "domain" \notin DOMAIN b.value
       \/ ("company" \in DOMAIN b.value /\ b.value.company.toks = << >>)
       \/ ("domain" \in DOMAIN b.value /\ b.value.domain.toks = << >>)
       \/ ("send_via_n8n" \in DOMAIN b.value /\ b.value.send_via_n8n.type # "boolean")

\* C7: a request that fails validation is answered with the structured error
\* "Invalid request" (400) at once: no run was created, both tables are as
\* they were (empty, with one request) and no collaborator was called.
C7_InvalidRequestTouchesNothing ==
    \A r \in Requests :
        (body[r] # NoValue /\ FailsValidation(body[r])) =>
            /\ Done(r)
            /\ response[r].status = 400
            /\ response[r].error = "Invalid request"
            /\ ~RunCreated(r)
            /\ calls[r] = {}
            /\ storeOps[r] = << >>
            /\ webhookPosts[r] = << >>
            /\ abm_runs = << >>
            /\ abm_insights = << >>

\* Each way of failing validation has been answered.
C7_Witness ==
    \E r \in Requests :
        /\ Done(r)
        /\ body[r].json
        /\ "company" \in DOMAIN body[r].value
        /\ body[r].value.company.toks = << >>
        /\ response[r].status = 400

-----------------------------------------------------------------------------
(* C8 *)

\* C8: every internal failure after the run was created is answered with an
\* error that carries the run's id, and leaves the run failed, also when the
\* write of status failed itself fails.
C8_FailureCarriesRunIdAndFails ==
    \A r \in Requests :
        (Done(r) /\ RunCreated(r) /\ response[r].status = 500) =>
            /\ "run_id" \in DOMAIN response[r]
            /\ response[r].run_id = runId[r]
            /\ Run(r).status = "failed"

-----------------------------------------------------------------------------
(* C9 *)

\* C9: the outcome of the webhook call changes neither the response nor the
\* run: whether it fails or not, the step after it is the success response,
\* the run rows and the insights are as before the call, and a request whose
\* webhook call failed has returned the success response with the insights of
\* the pipeline, its run being what the update to completed made it.
C9_WebhookFailureChangesNothing ==
    /\ [](\A r \in Requests :
            (Done(r) /\ HasLogged(r, "n8n webhook error:")) =>
                /\ response[r].status = 200
                /\ response[r].run_id = runId[r]
                /\ response[r].insights = insights[r]
                /\ Len(storeOps[r]) = 2
                /\ StoreOutcome(r, 2) = "ok" =>
                      /\ Run(r).status = "completed"
                      /\ Run(r).result_json = storeOps[r][2].fields.result_json)
    /\ [][\A r \in Requests :
            (pc[r] = "notify" /\ pc'[r] # "notify") =>
                /\ pc'[r] = "respond"
                /\ abm_runs' = abm_runs
                /\ insights'[r] = insights[r]
                /\ response'[r] = response[r]]_vars

\* The webhook call failed and the request still returned success on a
\* completed run.
C9_Witness ==
    \E r \in Requests :
        /\ Done(r)
        /\ HasLogged(r, "n8n webhook error:")
        /\ Len(webhookPosts[r]) = 1
        /\ response[r].status = 200
        /\ Run(r).status = "completed"

-----------------------------------------------------------------------------
(* C10 *)

\* The abm_insights rows of a run.
RowsOf(run) == SelectSeq(abm_insights, LAMBDA row : row.run_id = run)

\* C10: every row the vector store returns to a request's retrieval step, from
\* the rpc or from the fallback listing, belongs to that request's run, and
\* the pipeline only runs with a run id, so the rpc is never sent unscoped.
C10_RetrievalScopedToRun ==
    \A r \in Requests :
        /\ \A i \in 1..Len(retrieved[r]) : abm_insights[retrieved[r][i]].run_id = runId[r]
        /\ Len(relevantChunks[r]) = Len(retrieved[r])
        /\ pc[r] \in PipelineLabels => RunCreated(r)

\* Two runs hold rows of identical content; one retrieved through the rpc and
\* the other through the fallback listing.
C10_Witness ==
    \E a, b \in Requests :
        /\ a # b
        /\ RowsOf(runId[a]) # << >>
        /\ AsChunks(RowsOf(runId[a])) = AsChunks(RowsOf(runId[b]))
        /\ retrieved[a] # << >> /\ ~HasLogged(a, "RPC function not found, using fallback query")
        /\ retrieved[b] # << >> /\ HasLogged(b, "RPC function not found, using fallback query")

-----------------------------------------------------------------------------
(* C11 *)

\* C11: the update to completed carries status and payload in one statement,
\* and whenever the caller has received the success response the run is
\* completed in the Run Store with a payload whose insights, profile and
\* external citation count are the ones of the response.
C11_SuccessResponseMatchesStore ==
    /\ \A r \in Requests :
          \A n \in 1..Len(storeOps[r]) :
              ("result_json" \in DOMAIN storeOps[r][n].fields)
                  => /\ storeOps[r][n].op = "update"
                     /\ storeOps[r][n].fields.status = "completed"
    /\ \A r \in Requests :
          (Done(r) /\ response[r].status = 200) =>
              /\ Run(r).status = "completed"
              /\ Run(r).result_json.insights = response[r].insights
              /\ Run(r).result_json.scraped_data = response[r].scraped_data
              /\ Run(r).result_json.you_com_citations = response[r].you_com_citations

-----------------------------------------------------------------------------
(* C12 *)

\* similaritySearch caught a failure of its own queries.
RetrievalFailed(r) == HasLogged(r, "Error in similarity search:")

\* The fallback object of the claim, spelled out from the profile.
GenericInsights(r) ==
    /\ DOMAIN insights[r] = InsightsFields
    /\ insights[r].insights = << "Company: " \o scrapedData[r].name,
                                 "Domain: " \o scrapedData[r].domain,
                                 "Research completed with available data" >>
    /\ insights[r].email_subject = "Opportunity for " \o scrapedData[r].name
    /\ insights[r].email_body =
          "Hello " \o scrapedData[r].name
             \o " team,\n\nI wanted to reach out regarding potential collaboration opportunities.\n\nBest regards"

\* C12 as the specification states it: a failure of the retrieval step (the
\* similarity query and the fallback listing both fail) makes the pipeline
\* return the fallback object without invoking the generation capability.
C12_RetrievalFailureGivesFallback ==
    \A r \in Requests :
        RetrievalFailed(r) =>
            /\ "generation" \notin calls[r]
            /\ insights[r] # NoValue => GenericInsights(r)

\* C12, amended: a failure of chunk build, embedding (chunks or query),
\* persistence, generation or JSON parse makes runRAGPipeline return exactly the
\* fallback object; a failure of the retrieval step is absorbed inside
\* similaritySearch as an empty list of chunks, the generation capability is
\* invoked next, and what the pipeline returns is then decided by generation.
C12_StageFailureGivesFallback ==
    \A r \in Requests :
        /\ (PipelineFailed(r) /\ insights[r] # NoValue) => GenericInsights(r)
        /\ RetrievalFailed(r) =>
              /\ relevantChunks[r] = << >>
              /\ retrieved[r] = << >>
              /\ pc[r] = "rag_generate" \/ "generation" \in calls[r]
        /\ (RetrievalFailed(r) /\ ~PipelineFailed(r) /\ insights[r] # NoValue)
              => ~GenericInsights(r)

\* The similarity query reported an error, the fallback listing failed too, and
\* the request finished with what generation returned.
C12_Witness ==
    \E r \in Requests :
        /\ Done(r)
        /\ HasLogged(r, "RPC function not found, using fallback query")
        /\ RetrievalFailed(r)
        /\ "generation" \in calls[r]
        /\ insights[r] = GenFull

-----------------------------------------------------------------------------
(* C13 *)

\* The position of the last entry of list whose URL is url.
LastWithUrl(list, url) ==
    CHOOSE k \in 1..Len(list) :
        /\ list[k].url = url
        /\ \A j \in (k + 1)..Len(list) : list[j].url # url

\* out holds one entry per distinct URL of in, each the last occurrence of
\* its URL in in.
OnePerUrlLastWins(in, out) ==
    /\ \A i, j \in 1..Len(out) : out[i].url = out[j].url => i = j
    /\ {out[i].url : i \in 1..Len(out)} = {in[k].url : k \in 1..Len(in)}
    /\ \A i \in 1..Len(out) : out[i] = in[LastWithUrl(in, out[i].url)]

\* C13: deduplication by URL (string equality, so case-sensitive) returns
\* exactly one entry per distinct URL of its input, each equal to the last
\* occurrence of that URL, and deduplicating its result again changes nothing.
C13_DedupLastWinsIdempotent ==
    \A r \in Requests :
        /\ pc[r] = "dedup_again" => OnePerUrlLastWins(allCitations[r], uniqueCitations[r])
        /\ pc[r] = "deduped" => uniqueCitations[r] = allCitations[r]

\* [A, B], both at https://x.com, became the one-entry list with B's text.
C13_Witness ==
    \E r \in Requests :
        /\ pc[r] = "dedup_again"
        /\ allCitations[r] = <<CitA, CitB>>
        /\ Len(uniqueCitations[r]) = 1
        /\ uniqueCitations[r][1].text = "Acme ships anvil 2"

-----------------------------------------------------------------------------
(* C14 *)

\* The rows an insert added to abm_insights in this step.
NewInsightRows == SubSeq(abm_insights', Len(abm_insights) + 1, Len(abm_insights'))

\* rows are the records of chunks, position by position, with the vectors
\* embeddings: ordinal index (counted from 0, as the array index is), text,
\* vector and citation.
RecordsMatchChunks(rows, run, chunks, embeddings) ==
    /\ Len(rows) = Len(chunks)
    /\ \A i \in 1..Len(rows) :
          /\ rows[i].run_id = run
          /\ rows[i].content_json.chunk_index = i - 1
          /\ rows[i].content_json.text = chunks[i].text
          /\ rows[i].embedding = embeddings[i]
          /\ rows[i].citations = << chunks[i].citation >>

\* C14: the step that embeds and persists a list of n chunks writes exactly n
\* Insight Records for the run: record i has ordinal index i, the text of chunk
\* i, the i-th vector the embedder returned and chunk i's citation; a failed
\* step writes none, and the records of a run stay as they were written.
C14_RecordsFollowChunkOrder ==
    /\ [][\A r \in Requests :
            pc[r] = "rag_embed" =>
                LET chunks == TextChunks(scrapedData[r], youComCitations[r])
                IN  IF pc'[r] = "rag_query"
                    THEN \E embeddings \in EmbeddingResponses(Len(chunks)) :
                            RecordsMatchChunks(NewInsightRows, runId[r], chunks, embeddings)
                    ELSE pc'[r] = "rag_embed" \/ abm_insights' = abm_insights]_vars
    /\ [](\A r \in Requests :
            LET chunks == TextChunks(scrapedData[r], youComCitations[r])
                rows == RowsOf(runId[r])
            IN  rows # << >> =>
                    \E embeddings \in EmbeddingResponses(Len(chunks)) :
                        RecordsMatchChunks(rows, runId[r], chunks, embeddings))

\* Six chunks (description, about, four citations) were persisted with
\* vectors that differ between neighbours.
C14_Witness ==
    \E r \in Requests :
        /\ Len(RowsOf(runId[r])) = 6
        /\ RowsOf(runId[r])[2].embedding # RowsOf(runId[r])[1].embedding
        /\ RowsOf(runId[r])[6].citations = <<CitB>>
        /\ RowsOf(runId[r])[6].content_json = [text |-> "Acme ships anvil 2", chunk_index |-> 5]

-----------------------------------------------------------------------------
(* C15 *)

\* The abm_insights rows with the given ids, in that order.
RowsWithIds(ids) == [i \in 1..Len(ids) |-> abm_insights[ids[i]]]

\* rows is an answer of the similarity query of run for query vector q:
\* only rows of similarity strictly above 0.70, at most 5 of them, by
\* ascending distance, and no row left out that is better than one returned
\* or that would still fit.
TopMatches(rows, run, q) ==
    /\ Len(rows) <= 5
    /\ \A i \in 1..Len(rows) :
          /\ CosineSimilarity(rows[i].embedding, q) > 70
          /\ CosineSimilarity(rows[i].embedding, q) # 70
    /\ \A i, j \in 1..Len(rows) :
          i < j => CosineDistance(rows[i].embedding, q) <= CosineDistance(rows[j].embedding, q)
    /\ \A k \in 1..Len(RowsOf(run)) :
          LET row == RowsOf(run)[k]
          IN  CosineSimilarity(row.embedding, q) > 70 =>
                  \/ \E i \in 1..Len(rows) : rows[i] = row
                  \/ /\ Len(rows) = 5
                     /\ CosineDistance(rows[5].embedding, q) <= CosineDistance(row.embedding, q)

\* C15: what the similarity query returns to the pipeline are only records of
\* similarity strictly greater than 0.7 to the query vector (a record at
\* exactly 0.7 is left out), at most 5, best match first.
C15_OnlyStrictlyAboveThreshold ==
    [][\A r \in Requests :
          (pc[r] = "rag_query" /\ pc'[r] = "rag_generate" /\ log'[r] = log[r]) =>
              \E q \in QueryEmbeddings :
                  /\ TopMatches(RowsWithIds(retrieved'[r]), runId[r], q)
                  /\ relevantChunks'[r] = AsChunks(RowsWithIds(retrieved'[r]))]_vars

\* Of six records, the two at similarity 1.00 and the two at 0.85 were
\* returned in that order; the two at exactly 0.70 were not.
C15_Witness ==
    \E r \in Requests :
        /\ pc[r] = "rag_generate"
        /\ log[r] = << >>
        /\ Len(RowsOf(runId[r])) = 6
        /\ \E q \in QueryEmbeddings :
              /\ CosineSimilarity(RowsOf(runId[r])[3].embedding, q) = match_threshold
              /\ CosineSimilarity(RowsOf(runId[r])[1].embedding, q) = 100
        /\ retrieved[r] = <<1, 4, 2, 5>>

-----------------------------------------------------------------------------
(* C16 *)

\* The steps of POST's inner try that lie outside runRAGPipeline.
OutsidePipeline == {"scrape", "research", "update"}

\* The request sent the update to failed and the store applied it.
WroteFailed(r) ==
    \E n \in 1..Len(storeOps[r]) :
        /\ storeOps[r][n].op = "update"
        /\ storeOps[r][n].fields = [status |-> "failed"]
        /\ storeOps[r][n].outcome = "ok"

\* C16: POST's catch, the only writer of status failed, is entered only from
\* a step outside runRAGPipeline (in this code the update to completed, when
\* it raises), never from a step of the pipeline; so a run is failed only
\* when such a step raised for its request, and a request whose pipeline
\* failed while no outside step raised never has a failed run.
C16_FailedOnlyFromOutsidePipeline ==
    /\ [][\A r \in Requests :
            (pc[r] # "catch" /\ pc'[r] = "catch") => pc[r] \in OutsidePipeline]_vars
    /\ [](\A i \in 1..Len(abm_runs) :
            abm_runs[i].status = "failed" =>
                \E r \in Requests :
                    /\ runId[r] = i
                    /\ WroteFailed(r)
                    /\ Len(storeOps[r]) >= 3
                    /\ storeOps[r][2].fields.status = "completed"
                    /\ StoreOutcome(r, 2) = "throws")
    /\ [](\A r \in Requests :
            (PipelineFailed(r) /\ Len(storeOps[r]) >= 2 /\ StoreOutcome(r, 2) # "throws")
                => Run(r).status # "failed")

\* The pipeline failed and returned its fallback, the update to completed
\* raised, and the run is failed.
C16_Witness ==
    \E r \in Requests :
        /\ Done(r)
        /\ PipelineFailed(r)
        /\ StoreOutcome(r, 2) = "throws"
        /\ Run(r).status = "failed"

-----------------------------------------------------------------------------
(* C17 *)

\* result is parsed with its citations ensured from the deduplicated list
\* unique: backfilled with unique's URLs when parsed has no citations or an
\* empty list, left alone otherwise; every other field as parsed.
CitationsEnsured(result, parsed, unique) ==
    /\ DOMAIN result = DOMAIN parsed \cup {"citations"}
    /\ \A k \in DOMAIN parsed \ {"citations"} : result[k] = parsed[k]
    /\ IF "citations" \in DOMAIN parsed /\ parsed.citations # << >>
       THEN result.citations = parsed.citations
       ELSE result.citations = [i \in 1..Len(unique) |-> unique[i].url]

\* C17: when generation and parsing succeed with a JSON object, what the
\* pipeline returns is that object with its citations backfilled from the
\* deduplicated citations of the retrieved chunks (their URLs, in dedup order)
\* if they are missing or empty, and unchanged if not; the other fields are
\* returned as parsed.
C17_CitationsBackfilledWhenMissingOrEmpty ==
    [][\A r \in Requests :
          (pc[r] = "rag_generate" /\ pc'[r] = "update" /\ log'[r] = log[r]) =>
              /\ allCitations'[r] = FlatCitations(relevantChunks[r])
              /\ uniqueCitations'[r] = UniqueCitations(allCitations'[r])
              /\ \E completion \in Completions :
                    /\ completion.kind \in {"object", "no_content"}
                    /\ CitationsEnsured(insights'[r],
                                        IF completion.kind = "object" THEN completion.value
                                        ELSE GenEmptyObject,
                                        uniqueCitations'[r])]_vars

\* A reply without usable citations came back with the URLs of the two
\* deduplicated citations, the profile's first.
C17_Witness ==
    \E r \in Requests :
        /\ pc[r] = "update"
        /\ ~PipelineFailed(r)
        /\ Len(allCitations[r]) > Len(uniqueCitations[r])
        /\ Len(uniqueCitations[r]) = 2
        /\ DOMAIN insights[r] = InsightsFields
        /\ insights[r].insights = <<"Acme raised funds">>
        /\ insights[r].citations = <<"https://acme.com", "https://x.com">>

-----------------------------------------------------------------------------
(* C18 *)

\* The URL of the synthetic citation of the profile chunks.
ProfileUrl(r) == "https://" \o scrapedData[r].domain

\* C18: the citations of the fallback object are the URLs of the external
\* citations, one per citation in input order, duplicates kept; the profile's
\* synthetic URL is among them only if an external citation has it.
C18_FallbackCitationsAreExternalUrls ==
    \A r \in Requests :
        (PipelineFailed(r) /\ insights[r] # NoValue) =>
            /\ Len(insights[r].citations) = Len(youComCitations[r])
            /\ \A i \in 1..Len(youComCitations[r]) :
                  insights[r].citations[i] = youComCitations[r][i].url
            /\ (\E i \in 1..Len(insights[r].citations) :
                    insights[r].citations[i] = ProfileUrl(r))
                  => \E i \in 1..Len(youComCitations[r]) :
                        youComCitations[r][i].url = ProfileUrl(r)

\* Generation failed after the profile chunk and four external citations, two
\* pairs sharing a URL, were stored: the fallback lists the four URLs.
C18_Witness ==
    \E r \in Requests :
        /\ PipelineFailedWith(r, "chat.completions.create failed")
        /\ scrapedData[r].description # ""
        /\ \E i \in 1..Len(allCitations[r]) : allCitations[r][i].url = ProfileUrl(r)
        /\ youComCitations[r] = <<CitC, CitA, CitC, CitB>>
        /\ insights[r].citations =
              <<"https://y.com", "https://x.com", "https://y.com", "https://x.com">>

-----------------------------------------------------------------------------
(* C19 *)

\* The synthetic citation of a profile chunk.
SyntheticCitation(r) ==
    [text |-> "", url |-> "https://" \o scrapedData[r].domain, title |-> scrapedData[r].name]

HasDescription(r) == scrapedData[r].description # ""
HasAbout(r) ==
    /\ "about" \in DOMAIN scrapedData[r].metadata
    /\ scrapedData[r].metadata.about # ""

\* chunks is the assembly the claim describes for request r.
AssembledInOrder(r, chunks) ==
    LET nDesc == IF HasDescription(r) THEN 1 ELSE 0
        nAbout == IF HasAbout(r) THEN 1 ELSE 0
        cites == youComCitations[r]
    IN  /\ Len(chunks) = nDesc + nAbout + Len(cites)
        /\ HasDescription(r) =>
              chunks[1] = [text |-> "Company: " \o scrapedData[r].name \o "\nDescription: "
                                       \o scrapedData[r].description,
                           citation |-> SyntheticCitation(r)]
        /\ HasAbout(r) =>
              chunks[nDesc + 1] = [text |-> "About: " \o scrapedData[r].metadata.about,
                                   citation |-> SyntheticCitation(r)]
        /\ \A i \in 1..Len(cites) :
              chunks[nDesc + nAbout + i] = [text |-> cites[i].text, citation |-> cites[i]]

\* The chunks the persisted records of a run were made from.
PersistedChunks(run) ==
    [i \in 1..Len(RowsOf(run)) |->
        [text |-> RowsOf(run)[i].content_json.text, citation |-> RowsOf(run)[i].citations[1]]]

\* C19: the chunk list is the name+description chunk iff the description is
\* non-empty, the about chunk iff the about field is non-empty, both with the
\* synthetic citation, then one chunk per external citation in input order;
\* the records a run persists are made from that list; and when the list is
\* empty the pipeline stops at once with "No text chunks to process", before
\* any call to the embedder or the vector store.
C19_ChunksAssembledInOrder ==
    /\ [](\A r \in Requests :
            pc[r] \in PipelineLabels =>
                /\ AssembledInOrder(r, TextChunks(scrapedData[r], youComCitations[r]))
                /\ RowsOf(runId[r]) # << >> => AssembledInOrder(r, PersistedChunks(runId[r])))
    /\ [](\A r \in Requests :
            PipelineFailedWith(r, "No text chunks to process") =>
                /\ ~HasDescription(r) /\ ~HasAbout(r) /\ youComCitations[r] = << >>
                /\ calls[r] \cap {"embedder", "vector_store", "generation"} = {}
                /\ RowsOf(runId[r]) = << >>)
    /\ [][\A r \in Requests :
            (pc[r] = "rag_chunks" /\ pc'[r] # "rag_chunks") =>
                IF ~HasDescription(r) /\ ~HasAbout(r) /\ youComCitations[r] = << >>
                THEN /\ pc'[r] = "update"
                     /\ log'[r] = <<"Error in RAG pipeline: No text chunks to process">>
                     /\ abm_insights' = abm_insights
                ELSE pc'[r] = "rag_embed" /\ log'[r] = log[r]]_vars

\* Description, about and four external citations were assembled and
\* persisted in that order.
C19_Witness ==
    \E r \in Requests :
        /\ pc[r] = "rag_query"
        /\ HasDescription(r) /\ HasAbout(r)
        /\ youComCitations[r] = <<CitC, CitA, CitC, CitB>>
        /\ Len(PersistedChunks(runId[r])) = 6
        /\ PersistedChunks(runId[r])[1].text = "Company: Acme\nDescription: About Acme"
        /\ PersistedChunks(runId[r])[2].text = "About: About Acme"
        /\ PersistedChunks(runId[r])[3].citation = CitC

-----------------------------------------------------------------------------
(* C20 *)

FallbackWarning == "RPC function not found, using fallback query"

\* The first five records of a run as stored, in insertion order.
FirstFiveOf(run) ==
    [i \in 1..(IF Len(RowsOf(run)) < 5 THEN Len(RowsOf(run)) ELSE 5) |-> RowsOf(run)[i]]

\* C20: the fallback listing is entered only in the step in which the
\* similarity query reported an error (an empty answer goes on to generation);
\* it returns the first five records of the run as stored, unranked and
\* unfiltered, or nothing when it fails itself; and generation is the next
\* step in every case.
C20_FallbackListingOnlyOnError ==
    /\ [][\A r \in Requests :
            (pc[r] # "rag_fallback" /\ pc'[r] = "rag_fallback") =>
                /\ pc[r] = "rag_query"
                /\ log'[r] = Append(log[r], FallbackWarning)]_vars
    /\ [][\A r \in Requests :
            (pc[r] = "rag_fallback" /\ pc'[r] # "rag_fallback") =>
                /\ pc'[r] = "rag_generate"
                /\ insights'[r] = insights[r]
                /\ IF log'[r] = log[r]
                   THEN /\ RowsWithIds(retrieved'[r]) = FirstFiveOf(runId[r])
                        /\ relevantChunks'[r] =
                              [i \in 1..Len(FirstFiveOf(runId[r])) |->
                                  [text |-> FirstFiveOf(runId[r])[i].content_json.text,
                                   citations |-> FirstFiveOf(runId[r])[i].citations]]
                   ELSE retrieved'[r] = << >> /\ relevantChunks'[r] = << >>]_vars
    /\ [](\A r \in Requests :
            (pc[r] = "rag_generate" /\ ~HasLogged(r, FallbackWarning) /\ ~RetrievalFailed(r))
                => \E q \in QueryEmbeddings :
                      TopMatches(RowsWithIds(retrieved[r]), runId[r], q))

\* After the similarity query reported an error, five of the run's six
\* records were listed as stored, one of them at exactly the threshold of
\* the nearest query vector, and the request is about to generate.
C20_Witness ==
    \E r \in Requests :
        /\ pc[r] = "rag_generate"
        /\ HasLogged(r, FallbackWarning)
        /\ ~RetrievalFailed(r)
        /\ Len(RowsOf(runId[r])) = 6
        /\ retrieved[r] = <<1, 2, 3, 4, 5>>
        /\ CosineSimilarity(RowsOf(runId[r])[3].embedding, RowsOf(runId[r])[1].embedding)
              = match_threshold

-----------------------------------------------------------------------------
(* C21 *)

\* Everything a request holds of its own.
Locals(r) ==
    <<pc[r], body[r], req[r], runId[r], scrapedData[r], youComCitations[r],
      relevantChunks[r], allCitations[r], uniqueCitations[r], retrieved[r], insights[r],
      response[r], log[r], calls[r], webhookPosts[r], storeOps[r]>>

\* This step is a step of request r alone: no other request's locals change,
\* the only abm_runs row written or created is r's, the abm_insights rows
\* that existed stay as they were and the new ones carry r's run id.
StepOf(r) ==
    /\ \A o \in Requests \ {r} : Locals(o)' = Locals(o)
    /\ Len(abm_runs') >= Len(abm_runs)
    /\ \A i \in 1..Len(abm_runs') :
          (i > Len(abm_runs) \/ abm_runs'[i] # abm_runs[i]) => i = runId'[r]
    /\ Len(abm_insights') >= Len(abm_insights)
    /\ \A i \in 1..Len(abm_insights') :
          IF i <= Len(abm_insights)
          THEN abm_insights'[i] = abm_insights[i]
          ELSE abm_insights'[i].run_id = runId[r] /\ runId[r] # NoRun

RECURSIVE ApplyOwn(_, _, _)
\* row after the statements ops[n], ops[n+1], ... that the store applied.
ApplyOwn(row, ops, n) ==
    IF n > Len(ops) THEN row
    ELSE ApplyOwn(IF ops[n].outcome = "ok"
                  THEN [k \in DOMAIN row |->
                           IF k \in DOMAIN ops[n].fields THEN ops[n].fields[k] ELSE row[k]]
                  ELSE row,
                  ops, n + 1)

\* The run of request r as r's own statements alone make it.
OwnRun(r) ==
    ApplyOwn([id |-> runId[r],
              company |-> req[r].company,
              domain |-> Concat(req[r].domain),
              status |-> "processing",
              result_json |-> SqlNull],
             storeOps[r], 2)

\* The records of a run as a table of their own.
OwnTable(r) == RowsOf(runId[r])

\* C21: with two requests interleaved in any order, every step is the step of
\* one request that touches no other request's values and no record of
\* another run; what retrieval returns to a request is what the same query
\* returns from that run's records alone; and a run's status and payload are
\* what its own request's statements alone make them, as its response is made
\* of its own request's values. Distinct requests own distinct run ids.
C21_ConcurrentRequestsIndependent ==
    /\ [][\E r \in Requests : StepOf(r)]_vars
    /\ [][\A r \in Requests :
            /\ (pc[r] = "rag_query" /\ pc'[r] = "rag_generate" /\ log'[r] = log[r]) =>
                  \E q \in QueryEmbeddings :
                      relevantChunks'[r] =
                          AsChunks(match_abm_insights(OwnTable(r), q, 70, 5, runId[r]))
            /\ (pc[r] = "rag_fallback" /\ pc'[r] = "rag_generate" /\ log'[r] = log[r]) =>
                  relevantChunks'[r] = AsChunks(Slice(OwnTable(r), 5))]_vars
    /\ [](\A a, b \in Requests : (RunCreated(a) /\ runId[a] = runId[b]) => a = b)
    /\ [](\A r \in Requests : RunCreated(r) => Run(r) = OwnRun(r))
    /\ [](\A r \in Requests :
            (Done(r) /\ response[r].status = 200) =>
                response[r] = [status |-> 200,
                               success |-> TRUE,
                               run_id |-> runId[r],
                               company |-> req[r].company,
                               domain |-> Concat(req[r].domain),
                               insights |-> insights[r],
                               scraped_data |-> scrapedData[r],
                               you_com_citations |-> Len(youComCitations[r])])

\* Both requests have finished; the one that created its run second stored
\* its records first, each retrieved its own two records, one run is
\* completed and the other failed.
C21_Witness ==
    \E a, b \in Requests :
        /\ Done(a) /\ Done(b)
        /\ runId[a] = 1 /\ runId[b] = 2
        /\ Len(abm_insights) = 4
        /\ abm_insights[1].run_id = 2
        /\ Len(retrieved[a]) = 2 /\ Len(retrieved[b]) = 2
        /\ Run(a).status = "completed"
        /\ Run(b).status = "failed"

-----------------------------------------------------------------------------
(* C22 *)

\* The insights fields the webhook body carries are those of value, field by
\* field; a field value lacks is absent from the body.
CarriesInsights(post, value) ==
    /\ DOMAIN post \cap InsightsFields = DOMAIN value \cap InsightsFields
    /\ \A k \in DOMAIN post \cap InsightsFields : post[k] = value[k]

\* C22: a request posts to the webhook at most once, and only if its notify
\* flag is true, a webhook URL is configured and it has already sent the
\* update to completed (which did not raise); a request that failed
\* validation or whose run is failed has posted nothing; the body carries
\* the run's id and the insights the response carries.
C22_NotifierOnlyAfterCompletedWrite ==
    \A r \in Requests :
        /\ Len(webhookPosts[r]) <= 1
        /\ ("notifier" \in calls[r]) <=> (webhookPosts[r] # << >>)
        /\ webhookPosts[r] # << >> =>
              LET post == webhookPosts[r][1]
              IN  /\ Accepted(r)
                  /\ req[r].send_via_n8n = TRUE
                  /\ webhookUrl = TRUE
                  /\ Len(storeOps[r]) = 2
                  /\ storeOps[r][2].op = "update"
                  /\ storeOps[r][2].fields.status = "completed"
                  /\ StoreOutcome(r, 2) # "throws"
                  /\ Run(r).status # "failed"
                  /\ post.run_id = runId[r]
                  /\ post.company = req[r].company
                  /\ CarriesInsights(post, insights[r])
                  /\ Done(r) =>
                        /\ response[r].status = 200
                        /\ response[r].run_id = post.run_id
                        /\ CarriesInsights(post, response[r].insights)
        /\ (RunCreated(r) /\ Run(r).status = "failed") => webhookPosts[r] = << >>
        /\ (Done(r) /\ ~Accepted(r)) => "notifier" \notin calls[r]

\* A request with the notify flag has posted once, with the generated
\* insights, and returned the success response.
C22_Witness ==
    \E r \in Requests :
        /\ Done(r)
        /\ Len(webhookPosts[r]) = 1
        /\ webhookPosts[r][1].run_id = runId[r]
        /\ InsightsFields \subseteq DOMAIN webhookPosts[r][1]
        /\ webhookPosts[r][1].insights = GenFull.insights
        /\ webhookPosts[r][1].citations = response[r].insights.citations
        /\ Run(r).status = "completed"

====
